---- MODULE Spec2Model ----
(***************************************************************************)
(* Task partitioning and global-effect summaries for partial order         *)
(* reduction (src/src/tasks.hpp and its implementation file).              *)
(*                                                                         *)
(* Strings are sequences of tokens; ":" is the separator character.        *)
(* BasicNts, State, Transition and Variable objects are identified by      *)
(* natural numbers standing for their addresses; Task objects live in      *)
(* `heap` and a Task pointer is an index into it.                          *)
(***************************************************************************)
EXTENDS Integers, Sequences, FiniteSets, TLC

\* ------------------------------------------------------------------ bounds
NumUnits == 2
NumStates == 4
NumTrans == 3
NumGlobals == 2
MaxInstances == 2
MaxCalls == 2

NULL == 0
npos == -1

Units == 1..NumUnits
States == 1..NumStates
Transitions == 1..NumTrans
GlobalVars == 1..NumGlobals
Slots == {"a", "b", "c"}

VARIABLES
    instances,            \* n.instances(): the BasicNts of each Instance
    annotations,          \* State::annotations, per state
    state_user_data,      \* State::user_data: NULL or a StateInfo
    transition_user_data, \* Transition::user_data: NULL or a TransitionInfo
    state_infos,          \* the StateInfo objects allocated so far
    transition_infos,     \* the TransitionInfo objects allocated so far
    heap,                 \* the Task objects allocated so far
    tk,                   \* the Tasks object the running call works on
    pc,                   \* next step of compute_tasks
    err,                  \* what() of the logic_error thrown, or "none"
    ret,                  \* << the Tasks object the last call returned >>, or << >>
    outcomes,             \* outcome of every finished call
    gl                    \* three Globals values built through the API

vars == << instances, annotations, state_user_data, transition_user_data,
           state_infos, transition_infos, heap, tk, pc, err, ret, outcomes, gl >>

progvars == << instances, annotations, state_user_data, transition_user_data,
               state_infos, transition_infos, heap, tk, pc, err, ret, outcomes >>

\* ------------------------------------------------- GlobalWrites / Globals

\* GlobalWrites() : everything ( false )
GlobalWrites_new == [vars |-> {}, everything |-> FALSE]

\* Globals with default-constructed members
Globals_new == [reads |-> {}, writes |-> GlobalWrites_new]

\* faulty variant: the exact set is not cleared
insert_everything_keep(w) == [w EXCEPT !.everything = TRUE]

\* GlobalWrites::insert_everything
insert_everything(w) == [vars |-> {}, everything |-> TRUE]

\* GlobalWrites::insert
GlobalWrites_insert(w, v) ==
    IF w.everything THEN w ELSE [w EXCEPT !.vars = @ \cup {v}]

\* faulty variant: the universal flag is ignored
contains_exact(w, v) == v \in w.vars

\* GlobalWrites::contains
GlobalWrites_contains(w, v) ==
    IF w.everything THEN TRUE ELSE v \in w.vars

\* GlobalWrites::union_with
GlobalWrites_union_with(w, other) ==
    LET w1 == IF other.everything /\ ~w.everything
              THEN insert_everything(w) ELSE w
    IN  IF w1.everything THEN w1
        ELSE [w1 EXCEPT !.vars = @ \cup other.vars]

\* Globals::union_with
Globals_union_with(g, other) ==
    [reads  |-> g.reads \cup other.reads,
     writes |-> GlobalWrites_union_with(g.writes, other.writes)]

\* Globals::may_collide_with (declared and documented in the header)
may_collide_with(g, other) ==
    \/ \E v \in g.reads : GlobalWrites_contains(other.writes, v)
    \/ \E v \in other.reads : GlobalWrites_contains(g.writes, v)
    \/ \E v \in g.writes.vars : GlobalWrites_contains(other.writes, v)
    \/ \E v \in other.writes.vars : GlobalWrites_contains(g.writes, v)
    \/ g.writes.everything /\ other.writes.everything

\* ------------------------------------------------------------ the program

Colon == ":"
IdleName == << "idle_worker_task" >>

Ann(type, name, value) == [type |-> type, name |-> name, value |-> value]

\* the annotation lists a state of the flattened program may carry
AnnotationLists ==
    { << Ann("String", "comment", << "worker", Colon, "st" >>) >>,
      << Ann("String", "origin", << "s_running" >>) >>,
      << Ann("Int", "origin", << >>),
         Ann("String", "origin", << "worker", Colon, "0", Colon, "st" >>) >>,
      << Ann("String", "origin", << "idle_worker_task", Colon, "st" >>) >> }

\* BasicNts::name
bn_name(bn) ==
    IF bn = 1 THEN << "main" >>
    ELSE IF bn = 2 THEN << "worker" >> ELSE IdleName

\* the BasicNts a state belongs to
state_bn(s) == ((s - 1) % NumUnits) + 1

\* Transition::from
transition_from(t) == ((t - 1) % NumStates) + 1

\* the BasicNts a transition belongs to
transition_bn(t) == state_bn(transition_from(t))

RECURSIVE SortedSeq(_)
\* the elements of a set of addresses in ascending order
SortedSeq(S) ==
    IF S = {} THEN << >>
    ELSE LET x == CHOOSE y \in S : \A z \in S : y <= z
         IN  << x >> \o SortedSeq(S \ {x})

\* bn.states()
bn_states(bn) == SortedSeq({s \in States : state_bn(s) = bn})

\* bn->transitions()
bn_transitions(bn) == SortedSeq({t \in Transitions : transition_bn(t) = bn})

\* used_global_variables ( n, t ): the external primitive, a fixed function
\* of the transition
used_global_variables(t) ==
    LET k == t % 3
        v == ((t - 1) % NumGlobals) + 1
        u == (t % NumGlobals) + 1
    IN  IF k = 1 THEN [reads |-> {v}, writes |-> [vars |-> {u}, everything |-> FALSE]]
        ELSE IF k = 2 THEN [reads |-> {v}, writes |-> [vars |-> {}, everything |-> TRUE]]
        ELSE [reads |-> {v, u}, writes |-> [vars |-> {}, everything |-> FALSE]]

\* ------------------------------------------------------- string helpers

RECURSIVE find_from(_, _, _)
find_from(str, c, i) ==
    IF i > Len(str) THEN npos
    ELSE IF str[i] = c THEN i - 1 ELSE find_from(str, c, i + 1)

RECURSIVE rfind_from(_, _, _)
\* faulty variant: the last match instead of the first
rfind_from(str, c, i) ==
    IF i < 1 THEN npos
    ELSE IF str[i] = c THEN i - 1 ELSE rfind_from(str, c, i - 1)

\* faulty variant: std::string::rfind
string_rfind(str, c) == rfind_from(str, c, Len(str))

\* std::string::find ( ':' ): 0-based position of the first match, or npos
string_find(str, c) == find_from(str, c, 1)

\* string ( str, 0, pos )
string_prefix(str, pos) == SubSeq(str, 1, pos)

RECURSIVE find_annot_from(_, _)
find_annot_from(ants, i) ==
    IF i > Len(ants) THEN NULL
    ELSE IF ants[i].type = "String" /\ ants[i].name = "origin" THEN i
    ELSE find_annot_from(ants, i + 1)

\* find_annot_origin: index of the first String annotation named "origin",
\* NULL for nullptr
find_annot_origin(ants) == find_annot_from(ants, 1)

\* --------------------------------------------------------- Task and Tasks

\* new Task(); t->name = name
Task_new(name) ==
    [name |-> name, states |-> << >>,
     direct_global |-> Globals_new, transitive_global |-> Globals_new]

\* Tasks::Tasks: the fields the constructor leaves, idle_worker_task at `idle`
Tasks_new(idle) ==
    [toplevel_bnts |-> << >>, main_nts_name |-> << >>, tasks |-> << >>,
     name_to_task |-> << >>, idle_worker_task |-> idle]

\* faulty variant: a container that keeps duplicates
set_insert_dup(seq, x) == Append(seq, x)

\* std::set::insert on the ascending sequence of a set's elements
set_insert(seq, x) ==
    IF \E i \in 1..Len(seq) : seq[i] = x THEN seq
    ELSE SortedSeq({seq[i] : i \in 1..Len(seq)} \cup {x})

RECURSIVE toplevel_from(_, _, _)
toplevel_from(ins, i, acc) ==
    IF i > Len(ins) THEN acc
    ELSE toplevel_from(ins, i + 1, set_insert(acc, ins[i]))

\* map_insert: name_to_task.insert ( make_pair ( name, t ) )
map_insert(map, name, t) ==
    [k \in DOMAIN map \cup {name} |-> IF k = name THEN t ELSE map[k]]

\* ------------------------------------------------------ split_to_tasks
\* The loops work on a record m of the objects they change:
\* state_user_data, state_infos, heap, tk, err.

\* si->t = t for the StateInfo of state s
set_owner(m, s, t) ==
    [m EXCEPT !.state_infos[m.state_user_data[s]].t = t]

\* lines 114-129: look the task up by name, create and register it if it
\* is new, and make it the owner of s
assign_task(m, s, task_name) ==
    IF task_name \in DOMAIN m.tk.name_to_task
    THEN set_owner(m, s, m.tk.name_to_task[task_name])
    ELSE LET t == Len(m.heap) + 1
         IN  set_owner([m EXCEPT !.heap = Append(@, Task_new(task_name)),
                                 !.tk.tasks = Append(@, t),
                                 !.tk.name_to_task = map_insert(@, task_name, t)],
                       s, t)

\* faulty variant: the user_data test is missing
never_tagged(m, s) == FALSE

\* line 82: if ( s->user_data )
already_tagged(m, s) == m.state_user_data[s] # NULL

\* faulty variant: the state keeps its null owner
leave_unowned(m, s) == m

\* lines 103-107: an origin without ':' goes to the idle worker task
assign_idle(m, s) == set_owner(m, s, m.tk.idle_worker_task)

\* the body of the loop of split_to_tasks ( bn, split_by_annot ) for state s
split_state(m, bn, s, split_by_annot) ==
    IF already_tagged(m, s)
    THEN [m EXCEPT !.err = "Precondition R4 failed"]
    ELSE LET si == Len(m.state_infos) + 1
             m1 == [m EXCEPT !.state_infos = Append(@, [st |-> s, t |-> NULL]),
                             !.state_user_data[s] = si]
         IN  IF split_by_annot
             THEN LET origin == find_annot_origin(annotations[s])
                  IN  IF origin = NULL
                      THEN [m1 EXCEPT !.err = "Precondition R3 failed"]
                      ELSE LET value == annotations[s][origin].value
                               pos == string_find(value, Colon)
                           IN  IF pos = npos
                               THEN assign_idle(m1, s)
                               ELSE assign_task(m1, s, string_prefix(value, pos))
             ELSE assign_task(m1, s, bn_name(bn))

RECURSIVE split_states_from(_, _, _, _, _)
split_states_from(m, bn, sts, i, split_by_annot) ==
    IF i > Len(sts) \/ m.err # "none" THEN m
    ELSE split_states_from(split_state(m, bn, sts[i], split_by_annot),
                           bn, sts, i + 1, split_by_annot)

\* Tasks::split_to_tasks ( BasicNts & bn, bool split_by_annot )
split_to_tasks_bn(m, bn, split_by_annot) ==
    split_states_from(m, bn, bn_states(bn), 1, split_by_annot)

RECURSIVE split_bns_from(_, _)
\* Tasks::split_to_tasks(): the loop over toplevel_bnts from position i
split_bns_from(m, i) ==
    IF i > Len(m.tk.toplevel_bnts) \/ m.err # "none" THEN m
    ELSE LET bn == m.tk.toplevel_bnts[i]
         IN  split_bns_from(
                 split_to_tasks_bn(m, bn, bn_name(bn) # m.tk.main_nts_name),
                 i + 1)

\* ------------------------------------------------ compute_transition_info
\* m holds transition_user_data, transition_infos, tk, err.

\* the body of the inner loop of compute_transition_info for transition t
transition_info(m, t) ==
    IF m.transition_user_data[t] # NULL
    THEN [m EXCEPT !.err = "Precondition Q2 does not hold"]
    ELSE [m EXCEPT !.transition_infos =
                       Append(@, [transition |-> t,
                                  global |-> used_global_variables(t)]),
                   !.transition_user_data[t] = Len(m.transition_infos) + 1]

RECURSIVE transitions_from(_, _, _)
transitions_from(m, trs, i) ==
    IF i > Len(trs) \/ m.err # "none" THEN m
    ELSE transitions_from(transition_info(m, trs[i]), trs, i + 1)

RECURSIVE transition_bns_from(_, _)
\* the loop of compute_transition_info over toplevel_bnts from position i
transition_bns_from(m, i) ==
    IF i > Len(m.tk.toplevel_bnts) \/ m.err # "none" THEN m
    ELSE transition_bns_from(
             transitions_from(m, bn_transitions(m.tk.toplevel_bnts[i]), 1),
             i + 1)

\* ------------------------------------------------------------------ Init

RECURSIVE SeqsUpTo(_, _)
SeqsUpTo(S, n) ==
    IF n = 0 THEN { << >> }
    ELSE LET shorter == SeqsUpTo(S, n - 1)
         IN  shorter \cup { Append(q, x) : q \in shorter, x \in S }

NoTasks == Tasks_new(NULL)

InitProgram(ins, ants) ==
    /\ instances = ins
    /\ annotations = ants
    /\ state_user_data = [s \in States |-> NULL]
    /\ transition_user_data = [t \in Transitions |-> NULL]
    /\ state_infos = << >>
    /\ transition_infos = << >>
    /\ heap = << >>
    /\ tk = NoTasks
    /\ pc = "idle"
    /\ err = "none"
    /\ ret = << >>
    /\ outcomes = << >>

InitGlobals == gl = [x \in Slots |-> Globals_new]

Init ==
    /\ \E ins \in SeqsUpTo(Units, MaxInstances) :
       \E ants \in [States -> AnnotationLists] : InitProgram(ins, ants)
    /\ InitGlobals

\* --------------------------------------------------------- compute_tasks

\* a caller calls again after a call that returned; after a logic_error the
\* tool run ends
Callable == pc \in {"idle", "done"} /\ Len(outcomes) < MaxCalls

\* compute_tasks, lines 185-186: new Tasks ( n ), main_nts_name = main_nts
compute_tasks_begin(main_nts) ==
    /\ Callable
    /\ heap' = Append(heap, Task_new(IdleName))
    /\ tk' = [Tasks_new(Len(heap) + 1) EXCEPT !.main_nts_name = main_nts]
    /\ pc' = "calculate_toplevel_bnts"
    /\ err' = "none"
    /\ ret' = << >>
    /\ UNCHANGED << instances, annotations, state_user_data,
                    transition_user_data, state_infos, transition_infos,
                    outcomes, gl >>

\* Tasks::calculate_toplevel_bnts
calculate_toplevel_bnts ==
    /\ pc = "calculate_toplevel_bnts"
    /\ tk' = [tk EXCEPT !.toplevel_bnts = toplevel_from(instances, 1, << >>)]
    /\ pc' = "split_to_tasks"
    /\ UNCHANGED << instances, annotations, state_user_data,
                    transition_user_data, state_infos, transition_infos,
                    heap, err, ret, outcomes, gl >>

\* Tasks::split_to_tasks(), and the unwinding out of compute_tasks if it throws
split_to_tasks ==
    /\ pc = "split_to_tasks"
    /\ LET m == split_bns_from([state_user_data |-> state_user_data,
                                state_infos |-> state_infos,
                                heap |-> heap, tk |-> tk, err |-> "none"], 1)
       IN  /\ state_user_data' = m.state_user_data
           /\ state_infos' = m.state_infos
           /\ heap' = m.heap
           /\ tk' = m.tk
           /\ err' = m.err
           /\ pc' = IF m.err = "none" THEN "compute_transition_info" ELSE "failed"
           /\ outcomes' = IF m.err = "none" THEN outcomes
                          ELSE Append(outcomes, m.err)
    /\ UNCHANGED << instances, annotations, transition_user_data,
                    transition_infos, ret, gl >>

\* Tasks::compute_transition_info, and the unwinding if it throws
compute_transition_info ==
    /\ pc = "compute_transition_info"
    /\ LET m == transition_bns_from(
                    [transition_user_data |-> transition_user_data,
                     transition_infos |-> transition_infos,
                     tk |-> tk, err |-> "none"], 1)
       IN  /\ transition_user_data' = m.transition_user_data
           /\ transition_infos' = m.transition_infos
           /\ err' = m.err
           /\ pc' = IF m.err = "none" THEN "return" ELSE "failed"
           /\ outcomes' = IF m.err = "none" THEN outcomes
                          ELSE Append(outcomes, m.err)
    /\ UNCHANGED << instances, annotations, state_user_data, state_infos,
                    heap, tk, ret, gl >>

\* the values a read of the never-assigned pointer main_task may yield
IndeterminatePointers == {NULL} \cup (1..Len(heap))

\* ---------------------------------------------- reading the data structures

Range(seq) == { seq[i] : i \in 1..Len(seq) }

\* the units the program instantiates, and their states and transitions
InstantiatedUnits == Range(instances)
DiscoveredStates == { s \in States : state_bn(s) \in InstantiatedUnits }
DiscoveredTransitions ==
    { t \in Transitions : transition_bn(t) \in InstantiatedUnits }

TasksSet == Range(tk.tasks)

\* ( ( StateInfo * ) s->user_data )->t
Owner(s) == state_infos[state_user_data[s]].t

\* the transitions whose 'from' state is owned by task T
TransitionsOf(T) ==
    { t \in DiscoveredTransitions :
        /\ state_user_data[transition_from(t)] # NULL
        /\ Owner(transition_from(t)) = T }

\* ( ( TransitionInfo * ) t->user_data )->global
GlobalOf(t) == transition_infos[transition_user_data[t]].global

RECURSIVE UnionOver(_, _)
\* union_with folded over the Globals of a sequence
UnionOver(gs, i) ==
    IF i > Len(gs) THEN Globals_new
    ELSE Globals_union_with(UnionOver(gs, i + 1), gs[i])

\* faulty variant of the return step: direct effects aggregated as
\* Task::compute_direct_globals documents, the transitive ones left as
\* constructed
compute_tasks_return_direct_only ==
    /\ pc = "return"
    /\ ret' = << [tasks |-> tk.tasks, name_to_task |-> tk.name_to_task,
                  main_task |-> NULL,
                  idle_worker_task |-> tk.idle_worker_task] >>
    /\ heap' = [T \in DOMAIN heap |->
                  [heap[T] EXCEPT !.direct_global =
                      UnionOver([i \in 1..Len(SortedSeq(TransitionsOf(T))) |->
                                    GlobalOf(SortedSeq(TransitionsOf(T))[i])], 1)]]
    /\ pc' = "done"
    /\ outcomes' = Append(outcomes, "ok")
    /\ UNCHANGED << instances, annotations, state_user_data,
                    transition_user_data, state_infos, transition_infos,
                    tk, err, gl >>

\* compute_tasks, line 193: return tasks
compute_tasks_return ==
    /\ pc = "return"
    /\ \E p \in IndeterminatePointers :
           ret' = << [tasks |-> tk.tasks, name_to_task |-> tk.name_to_task,
                     main_task |-> p,
                     idle_worker_task |-> tk.idle_worker_task] >>
    /\ pc' = "done"
    /\ outcomes' = Append(outcomes, "ok")
    /\ UNCHANGED << instances, annotations, state_user_data,
                    transition_user_data, state_infos, transition_infos,
                    heap, tk, err, gl >>

\* the names a caller may pass as main_nts: a unit's, or one no unit has
MainNames == { bn_name(bn) : bn \in Units } \cup { IdleName }

Next ==
    \/ \E main_nts \in MainNames : compute_tasks_begin(main_nts)
    \/ calculate_toplevel_bnts
    \/ split_to_tasks
    \/ compute_transition_info
    \/ compute_tasks_return

Spec == Init /\ [][Next]_vars

\* ---------------------------------------- building Globals through the API

\* GlobalReads is a std::set: reads.insert ( v )
GlobalReads_insert(x, v) ==
    /\ gl' = [gl EXCEPT ![x].reads = @ \cup {v}]
    /\ UNCHANGED progvars

\* writes.insert ( v )
writes_insert(x, v) ==
    /\ gl' = [gl EXCEPT ![x].writes = GlobalWrites_insert(@, v)]
    /\ UNCHANGED progvars

\* writes.insert_everything()
writes_insert_everything(x) ==
    /\ gl' = [gl EXCEPT ![x].writes = insert_everything(@)]
    /\ UNCHANGED progvars

\* gl[x].union_with ( gl[y] )
union_with(x, y) ==
    /\ gl' = [gl EXCEPT ![x] = Globals_union_with(@, gl[y])]
    /\ UNCHANGED progvars

InitAlg ==
    /\ InitProgram(<< >>, [s \in States |-> << >>])
    /\ InitGlobals

NextAlg ==
    \/ \E x \in Slots, v \in GlobalVars : GlobalReads_insert(x, v)
    \/ \E x \in Slots, v \in GlobalVars : writes_insert(x, v)
    \/ \E x \in Slots : writes_insert_everything(x)
    \/ \E x \in Slots, y \in Slots : union_with(x, y)

SpecAlg == InitAlg /\ [][NextAlg]_vars

\* ------------------------------------------- properties of the summaries
\* Set-level reading of the collision predicate: a universal write set
\* meets every non-empty set and every universal write set.
ReadsMeetWrites(r, w) ==
    IF w.everything THEN r # {} ELSE r \cap w.vars # {}

WritesMeetWrites(w1, w2) ==
    IF w1.everything /\ w2.everything THEN TRUE
    ELSE IF w1.everything THEN w2.vars # {}
    ELSE IF w2.everything THEN w1.vars # {}
    ELSE w1.vars \cap w2.vars # {}

Collides(A, B) ==
    \/ ReadsMeetWrites(A.reads, B.writes)
    \/ ReadsMeetWrites(B.reads, A.writes)
    \/ WritesMeetWrites(A.writes, B.writes)

PureReader(A) == A.writes = GlobalWrites_new

\* C5: may_collide_with(A, B) is true iff
\* (A.reads /\ B.writes) \/ (A.writes /\ B.reads) \/ (A.writes /\ B.writes)
\* is non-empty under the universal-write semantics; it is commutative, a
\* writer of {g} collides with a reader of {g}, and two pure readers never
\* collide.
C5_CollisionPredicate ==
    \A x \in Slots, y \in Slots :
        LET A == gl[x]
            B == gl[y]
        IN  /\ may_collide_with(A, B) <=> Collides(A, B)
            /\ may_collide_with(A, B) <=> may_collide_with(B, A)
            /\ \A g \in GlobalVars :
                   GlobalWrites_contains(A.writes, g) /\ g \in B.reads
                       => may_collide_with(A, B)
            /\ PureReader(A) /\ PureReader(B) => ~may_collide_with(A, B)

\* a universal writer without reads, a pure reader it collides with, and a
\* second pure reader of another variable that does not collide with the first
C5_Witness ==
    /\ gl["a"].writes.everything /\ gl["a"].reads = {}
    /\ PureReader(gl["b"]) /\ gl["b"].reads # {}
    /\ PureReader(gl["c"]) /\ gl["c"].reads # {}
    /\ gl["b"].reads \cap gl["c"].reads = {}
    /\ may_collide_with(gl["a"], gl["b"])
    /\ ~may_collide_with(gl["b"], gl["c"])

Universal == [vars |-> {}, everything |-> TRUE]

\* C6: union_with is commutative, associative and idempotent, and the union
\* with a summary whose writes are universal has universal writes with an
\* empty exact set, whichever operand is the receiver.
C6_UnionLaws ==
    \A x \in Slots, y \in Slots, z \in Slots :
        LET A == gl[x]
            B == gl[y]
            C == gl[z]
        IN  /\ A.writes.everything => A.writes.vars = {}
            /\ Globals_union_with(A, B) = Globals_union_with(B, A)
            /\ GlobalWrites_union_with(A.writes, B.writes)
                   = GlobalWrites_union_with(B.writes, A.writes)
            /\ Globals_union_with(Globals_union_with(A, B), C)
                   = Globals_union_with(A, Globals_union_with(B, C))
            /\ Globals_union_with(A, A) = A
            /\ B.writes.everything =>
                   /\ Globals_union_with(A, B).writes = Universal
                   /\ Globals_union_with(B, A).writes = Universal

\* an exact non-empty write set is united with a universal one, both ways
C6_Witness ==
    /\ ~gl["a"].writes.everything /\ gl["a"].writes.vars # {}
    /\ gl["b"].writes.everything
    /\ ~gl["c"].writes.everything /\ gl["c"].writes.vars # {}
    /\ gl["c"].writes.vars # gl["a"].writes.vars
    /\ Globals_union_with(gl["a"], gl["b"]).writes = Universal
    /\ Globals_union_with(gl["b"], gl["a"]).writes = Universal
    /\ Globals_union_with(gl["a"], gl["c"]).writes.vars
           = gl["a"].writes.vars \cup gl["c"].writes.vars

\* ------------------------------------------- properties of compute_tasks

\* split_to_tasks() of the running or last call completed without a throw
Partitioned == pc \in {"compute_transition_info", "return", "done"}

\* compute_transition_info of the running or last call completed
TransitionsComputed == pc \in {"return", "done"}

Returned == pc = "done"

DoubleInit == {"Precondition R4 failed", "Precondition Q2 does not hold"}

C2_DirectAggregation ==
    Returned =>
        \A T \in TasksSet :
            LET trs == TransitionsOf(T)
                d == heap[T].direct_global
                universal == \E t \in trs : GlobalOf(t).writes.everything
            IN  /\ d.reads = UNION { GlobalOf(t).reads : t \in trs }
                /\ d.writes.everything <=> universal
                /\ ~universal =>
                       d.writes.vars = UNION { GlobalOf(t).writes.vars : t \in trs }

C4_TransitionInfoComplete ==
    /\ TransitionsComputed =>
           \A t \in DiscoveredTransitions :
               /\ transition_user_data[t] # NULL
               /\ transition_infos[transition_user_data[t]].transition = t
               /\ GlobalOf(t) = used_global_variables(t)
               /\ Cardinality({ i \in 1..Len(transition_infos) :
                                   transition_infos[i].transition = t }) = 1
    /\ Len(outcomes) = 0 \/ (Len(outcomes) = 1 /\ pc \in {"done", "failed"})
           => err \notin DoubleInit

\* a unit instantiated twice whose transitions have their records
C4_Witness ==
    /\ Returned
    /\ Len(instances) = 2 /\ instances[1] = instances[2]
    /\ \E t \in DiscoveredTransitions :
           /\ transition_user_data[t] # NULL
           /\ GlobalOf(t).writes.everything

\* C7: a second compute_tasks on the same program after a successful first
\* call raises the double-initialization logic_error at the first state it
\* re-processes (no second record is created, no task is created) and
\* returns no Tasks object.
C7_SecondCallFails ==
    (Len(outcomes) >= 1 /\ outcomes[1] = "ok") =>
        /\ \A s \in States :
               Cardinality({ i \in 1..Len(state_infos) :
                               state_infos[i].st = s }) <= 1
        /\ \A t \in Transitions :
               Cardinality({ i \in 1..Len(transition_infos) :
                               transition_infos[i].transition = t }) <= 1
        /\ DiscoveredStates # {} =>
               /\ Len(outcomes) = 1 =>
                      pc \in {"done", "calculate_toplevel_bnts",
                              "split_to_tasks"}
               /\ Len(outcomes) >= 2 =>
                      /\ outcomes[2] \in DoubleInit
                      /\ pc = "failed"
                      /\ err = outcomes[2]
                      /\ ret = << >>
                      /\ tk.tasks = << >>

\* the second call has thrown after a first call that returned
C7_Witness ==
    /\ Len(outcomes) = 2
    /\ outcomes[1] = "ok"
    /\ pc = "failed"
    /\ err = "Precondition R4 failed"
    /\ ret = << >>

\* the unit whose name is main_nts_name, if it is instantiated
MainUnits == { bn \in InstantiatedUnits : bn_name(bn) = tk.main_nts_name }

\* C8: after compute_tasks returns with a unit named main among the
\* instantiated units, every state of that unit is owned by one task named
\* after the unit, and main_task of the result refers to that task.
C8_MainTask ==
    Returned =>
        \A bn \in MainUnits :
            \E T \in TasksSet :
                /\ heap[T].name = bn_name(bn)
                /\ \A s \in States : state_bn(s) = bn => Owner(s) = T
                /\ ret[1].main_task = T

\* C9: after partitioning, for every task including the idle worker task, a
\* StateInfo is in the task's states exactly once iff its owner is the task.
C9_StatesAssigned ==
    Partitioned =>
        \A T \in TasksSet \cup {tk.idle_worker_task} :
            \A si \in 1..Len(state_infos) :
                Cardinality({ i \in 1..Len(heap[T].states) :
                                heap[T].states[i] = si }) = 1
                    <=> state_infos[si].t = T

\* the value of the first String annotation named "origin" of state s
OriginOf(s) ==
    LET ants == annotations[s]
        k == CHOOSE i \in 1..Len(ants) :
                 /\ ants[i].type = "String" /\ ants[i].name = "origin"
                 /\ \A j \in 1..(i - 1) :
                        ~(ants[j].type = "String" /\ ants[j].name = "origin")
    IN  ants[k].value

HasColon(str) == \E i \in 1..Len(str) : str[i] = Colon

\* the part of str before its first ':'
BeforeFirstColon(str) ==
    LET k == CHOOSE i \in 1..Len(str) :
                 str[i] = Colon /\ \A j \in 1..(i - 1) : str[j] # Colon
    IN  SubSeq(str, 1, k - 1)

\* the states split by their origin annotation
ByOriginStates ==
    { s \in DiscoveredStates : bn_name(state_bn(s)) # tk.main_nts_name }

====
